---------------------------- MODULE Spec2Model ----------------------------
(***************************************************************************)
(* A model of the Precision Agriculture ML backend (app.py).               *)
(*                                                                         *)
(* Three specifications share the module:                                  *)
(*   SpecStore    the model store: startup (load or train), retraining in  *)
(*                place, persistence, and prediction calls that read the   *)
(*                store while a retrain is running;                        *)
(*   SpecPredict  the /api/predict handler and assess_risks;               *)
(*   SpecCrop     the /api/crop/recommendations handler and the            *)
(*                compatibility score.                                     *)
(*                                                                         *)
(* Numbers.  Python floats are modelled by exact fixed-point integers; the *)
(* unit of each quantity is stated where it is introduced.                 *)
(***************************************************************************)
EXTENDS Integers, Sequences, FiniteSets, TLC

VARIABLES
    \* ---- the model store and its process (SpecStore) ----
    phase,        \* "down" | "init" | "ready" | "crashed": the server process
    fs,           \* the models directory: file name -> generation stored (0: no file)
    scaler,       \* self.scalers['features']: [gen, fitted]; gen 0: no entry
    models,       \* self.models: model name -> generation (0: no entry)
    nextGen,      \* the generation the next call of train_models produces
    tpc,          \* position of the thread inside train_models
    tcaller,      \* who called train_models: "init" | "retrain" | "none"
    before,       \* the store as it was when the running retrain started
    retrainResp,  \* response of the last retrain request
    ppc,          \* position of the prediction call in its sequence of reads
    pkind,        \* "temperature" | "all" | "none": the prediction call running
    reads,        \* generations the prediction call has read so far
    predResp,     \* outcome of the last prediction call
    initPath,     \* branch the last initialize_models took
    persisted,    \* a train_models run has completed save_models in this directory
    sawPersisted, \* value of persisted when the last startup began
    \* ---- request handlers (SpecPredict, SpecCrop) ----
    request,      \* the request being handled
    response,     \* the handler's response (status "none" before it ran)
    readIdx       \* forecast list indices read by predict_weather, in order

storeVars == <<phase, fs, scaler, models, nextGen, tpc, tcaller, before,
               retrainResp, ppc, pkind, reads, predResp, initPath, persisted,
               sawPersisted>>
apiVars == <<request, response, readIdx>>
vars == <<phase, fs, scaler, models, nextGen, tpc, tcaller, before,
          retrainResp, ppc, pkind, reads, predResp, initPath, persisted,
          sawPersisted, request, response, readIdx>>

(***************************************************************************)
(* Bounds                                                                  *)
(***************************************************************************)
\* Training generations the store model runs through (generation 1 is the
\* content of a models directory that was deployed with the server).
MaxGen == 3

(***************************************************************************)
(* The model store                                                         *)
(***************************************************************************)
\* Keys of self.models, in the order train_models / load_models insert them.
ModelNames == <<"temp_ensemble", "humidity", "rainfall", "aqi">>

ModelKeys == {ModelNames[i] : i \in 1..Len(ModelNames)}

\* f'models/{model_name}.pkl'
ModelFile(model_name) == "models/" \o model_name \o ".pkl"

\* f'models/scaler_{scaler_name}.pkl'
ScalerFile(scaler_name) == "models/scaler_" \o scaler_name \o ".pkl"

\* The path initialize_models tests with os.path.exists.
PretrainedMarker == "models/ensemble_temp.pkl"

\* Files save_models writes, in order: the models, then the scalers.
SaveOrder == [i \in 1..(Len(ModelNames) + 1) |->
                 IF i <= Len(ModelNames) THEN ModelFile(ModelNames[i])
                                         ELSE ScalerFile("features")]

AllFiles == {SaveOrder[i] : i \in 1..Len(SaveOrder)} \cup {PretrainedMarker}

NoScaler == [gen |-> 0, fitted |-> FALSE]
NoModels == [n \in ModelKeys |-> 0]
EmptyDir == [f \in AllFiles |-> 0]

\* Models directories the server may be started against: an empty one, one
\* deployed with a complete set of generation-1 artifacts under the names
\* initialize_models and load_models read, and one holding the marker alone.
DeployedDir == [f \in AllFiles |-> 1]
MarkerOnlyDir == [f \in AllFiles |-> IF f = PretrainedMarker THEN 1 ELSE 0]
ModelsDirs == {EmptyDir, DeployedDir, MarkerOnlyDir}

\* The in-memory store: what prediction calls read.
Store == [scaler |-> scaler, models |-> models]

\* Every artifact save_models writes is on disk.
ArtifactsOnDisk == \A i \in 1..Len(SaveOrder) : fs[SaveOrder[i]] # 0

StoreIdle ==
    /\ tpc = "idle" /\ tcaller = "none"

\* train_models, line 75-78: the training data is generated and a new,
\* unfitted StandardScaler replaces self.scalers['features'].
BeginTrain(caller) ==
    /\ nextGen <= MaxGen
    /\ scaler' = [gen |-> nextGen, fitted |-> FALSE]
    /\ nextGen' = nextGen + 1
    /\ tpc' = "fit_scaler"
    /\ tcaller' = caller
    /\ before' = Store

\* initialize_models: load when the marker exists, train otherwise.
\* load_models reads the four model files and the scaler file; a missing one
\* raises FileNotFoundError, which ends the process at import.
LoadModels ==
    /\ initPath' = "load"
    /\ IF ArtifactsOnDisk
         THEN /\ models' = [n \in ModelKeys |-> fs[ModelFile(n)]]
              /\ scaler' = [gen |-> fs[ScalerFile("features")], fitted |-> TRUE]
              /\ phase' = "ready"
         ELSE /\ phase' = "crashed"
              /\ UNCHANGED <<models, scaler>>
    /\ UNCHANGED <<nextGen, tpc, tcaller, before>>

InitializeTrain ==
    /\ initPath' = "train"
    /\ phase' = "init"
    /\ BeginTrain("init")
    /\ UNCHANGED models

\* ml_models = WeatherMLModels(): the process starts and builds the store.
Startup ==
    /\ phase = "down"
    /\ sawPersisted' = persisted
    /\ IF fs[PretrainedMarker] # 0 THEN LoadModels ELSE InitializeTrain
    /\ UNCHANGED <<fs, retrainResp, ppc, pkind, reads, predResp, persisted>>
    /\ UNCHANGED apiVars

\* POST /api/retrain: retrain_models calls ml_models.train_models().
RetrainBegin ==
    /\ phase = "ready"
    /\ StoreIdle
    /\ BeginTrain("retrain")
    /\ retrainResp' = "pending"
    /\ UNCHANGED <<phase, fs, models, ppc, pkind, reads, predResp, initPath,
                   persisted, sawPersisted>>
    /\ UNCHANGED apiVars

\* line 79: fit_transform fits the scaler that self.scalers already holds.
FitScaler ==
    /\ tpc = "fit_scaler"
    /\ scaler' = [scaler EXCEPT !.fitted = TRUE]
    /\ tpc' = "fit_" \o ModelNames[1]
    /\ UNCHANGED <<phase, fs, models, nextGen, tcaller, before, retrainResp,
                   ppc, pkind, reads, predResp, initPath, persisted, sawPersisted>>
    /\ UNCHANGED apiVars

\* lines 83-114: the regressors of one entry are fitted and the entry of
\* self.models is replaced, one entry after the other.
FitModel(i) ==
    /\ tpc = "fit_" \o ModelNames[i]
    /\ models' = [models EXCEPT ![ModelNames[i]] = scaler.gen]
    /\ tpc' = IF i < Len(ModelNames) THEN "fit_" \o ModelNames[i + 1]
                                     ELSE "dump_1"
    /\ UNCHANGED <<phase, fs, scaler, nextGen, tcaller, before, retrainResp,
                   ppc, pkind, reads, predResp, initPath, persisted, sawPersisted>>
    /\ UNCHANGED apiVars

\* What joblib.dump writes for the i-th file of save_models: the object the
\* store holds at that moment.
DumpedGen(i) ==
    IF i <= Len(ModelNames) THEN models[ModelNames[i]] ELSE scaler.gen

\* train_models returned: initialize_models ends, or retrain_models answers.
TrainReturns(outcome) ==
    /\ tpc' = "idle"
    /\ tcaller' = "none"
    /\ IF tcaller = "init"
         THEN /\ phase' = IF outcome = "success" THEN "ready" ELSE "crashed"
              /\ UNCHANGED retrainResp
         ELSE /\ retrainResp' = outcome
              /\ UNCHANGED phase

\* save_models, lines 124-128: one joblib.dump.
Dump(i) ==
    /\ tpc = "dump_" \o ToString(i)
    /\ fs' = [fs EXCEPT ![SaveOrder[i]] = DumpedGen(i)]
    /\ IF i < Len(SaveOrder)
         THEN /\ tpc' = "dump_" \o ToString(i + 1)
              /\ UNCHANGED <<phase, tcaller, retrainResp, persisted>>
         ELSE /\ TrainReturns("success")
              /\ persisted' = TRUE
    /\ UNCHANGED <<scaler, models, nextGen, before, ppc, pkind, reads,
                   predResp, initPath, sawPersisted>>
    /\ UNCHANGED apiVars

\* A step of train_models raises (fit_transform, a fit, a joblib.dump): the
\* exception leaves train_models where it is; retrain_models answers
\* {success: False, error}, at import the process ends.
TrainFails ==
    /\ tpc # "idle"
    /\ TrainReturns("failure")
    /\ UNCHANGED <<fs, scaler, models, nextGen, before, ppc, pkind, reads,
                   predResp, initPath, persisted, sawPersisted>>
    /\ UNCHANGED apiVars

\* The reads of the store a prediction call makes, in order.
\* predict_temperature: the scaler (line 143), the ensemble entry (line 145).
\* predict_all: the scaler (162), predict_temperature (165), then the
\* humidity, rainfall and aqi entries (166-168).
ReadProg(kind) ==
    IF kind = "temperature"
      THEN <<"scaler", "temp_ensemble">>
      ELSE <<"scaler", "scaler", "temp_ensemble", "humidity", "rainfall", "aqi">>

\* A request thread enters predict_temperature or predict_all.
PredictBegin(kind) ==
    /\ phase = "ready"
    /\ pkind = "none"
    /\ pkind' = kind
    /\ ppc' = 1
    /\ reads' = <<>>
    /\ predResp' = "pending"
    /\ UNCHANGED <<phase, fs, scaler, models, nextGen, tpc, tcaller, before,
                   retrainResp, initPath, persisted, sawPersisted>>
    /\ UNCHANGED apiVars

\* One read of the store by the running prediction call.  transform on a
\* scaler that is not fitted raises; the call ends with an error.
PredictStep ==
    /\ pkind # "none"
    /\ LET what == ReadProg(pkind)[ppc]
           g == IF what = "scaler" THEN scaler.gen ELSE models[what]
           raises == what = "scaler" /\ ~scaler.fitted
           last == ppc = Len(ReadProg(pkind))
       IN  /\ reads' = IF raises THEN reads ELSE Append(reads, g)
           /\ predResp' = IF raises THEN "error" ELSE IF last THEN "ok" ELSE predResp
           /\ pkind' = IF raises \/ last THEN "none" ELSE pkind
           /\ ppc' = IF raises \/ last THEN 0 ELSE ppc + 1
    /\ UNCHANGED <<phase, fs, scaler, models, nextGen, tpc, tcaller, before,
                   retrainResp, initPath, persisted, sawPersisted>>
    /\ UNCHANGED apiVars

\* The server process ends; the models directory stays.
Shutdown ==
    /\ phase \in {"ready", "crashed"}
    /\ phase' = "down"
    /\ scaler' = NoScaler
    /\ models' = NoModels
    /\ tpc' = "idle"
    /\ tcaller' = "none"
    /\ before' = [scaler |-> NoScaler, models |-> NoModels]
    /\ retrainResp' = "none"
    /\ ppc' = 0
    /\ pkind' = "none"
    /\ reads' = <<>>
    /\ predResp' = "none"
    /\ UNCHANGED <<fs, nextGen, initPath, persisted, sawPersisted>>
    /\ UNCHANGED apiVars

ApiIdle ==
    /\ request = [op |-> "none"]
    /\ response = [status |-> "none"]
    /\ readIdx = <<>>

InitStore ==
    /\ phase = "down"
    /\ fs \in ModelsDirs
    /\ scaler = NoScaler
    /\ models = NoModels
    /\ nextGen = 2
    /\ tpc = "idle"
    /\ tcaller = "none"
    /\ before = [scaler |-> NoScaler, models |-> NoModels]
    /\ retrainResp = "none"
    /\ ppc = 0
    /\ pkind = "none"
    /\ reads = <<>>
    /\ predResp = "none"
    /\ initPath = "none"
    /\ persisted = FALSE
    /\ sawPersisted = FALSE
    /\ ApiIdle

NextStore ==
    \/ Startup
    \/ RetrainBegin
    \/ FitScaler
    \/ \E i \in 1..Len(ModelNames) : FitModel(i)
    \/ \E i \in 1..Len(SaveOrder) : Dump(i)
    \/ TrainFails
    \/ \E kind \in {"temperature", "all"} : PredictBegin(kind)
    \/ PredictStep
    \/ Shutdown

SpecStore == InitStore /\ [][NextStore]_vars

(***************************************************************************)
(* Claims about the model store                                            *)
(***************************************************************************)
\* C1: a prediction call that runs while a retrain is running uses a scaler
\* and regressors of one training generation: every value it read from the
\* store belongs to the same generation.
C1_OneGenerationPerPrediction ==
    predResp = "ok" => \A i \in 1..Len(reads), j \in 1..Len(reads) : reads[i] = reads[j]

\* C2: after a retrain that failed, the store that was active before it is
\* still in effect: the scaler and the four model entries are what they were
\* when the retrain started.
C2_FailedRetrainKeepsStore ==
    retrainResp = "failure" => Store = before

\* C3: a startup against a models directory in which an earlier train_models
\* run has persisted its artifacts takes the load path.
C3_SecondStartupLoads ==
    (phase \in {"init", "ready"} /\ sawPersisted) => initPath = "load"


(***************************************************************************)
(* Numbers and dictionaries                                                *)
(***************************************************************************)
\* JSON objects / Python dicts are functions whose domain is the set of keys
\* that are present.
Restrict(d, keys) == [k \in keys |-> d[k]]

\* d.get(key, default)
Get(d, key, default) == IF key \in DOMAIN d THEN d[key] ELSE default

EmptyDict == [k \in {} |-> 0]

RECURSIVE SumSeq(_)
SumSeq(xs) == IF xs = <<>> THEN 0 ELSE Head(xs) + SumSeq(Tail(xs))

Abs(x) == IF x < 0 THEN -x ELSE x

Max(a, b) == IF b > a THEN b ELSE a

Min(a, b) == IF b < a THEN b ELSE a

\* round(): num/den to the nearest integer, ties to the even one (Python's
\* and numpy's rule for a value that is exactly representable).
RoundHalfEven(num, den) ==
    LET q == num \div den
        r == num % den
    IN  IF 2 * r < den THEN q
        ELSE IF 2 * r > den THEN q + 1
        ELSE IF q % 2 = 0 THEN q ELSE q + 1

\* range(start, stop, step), step > 0, as a sequence.
Range(start, stop, step) ==
    LET count == IF stop > start THEN (stop - start + step - 1) \div step ELSE 0
    IN  [j \in 1..count |-> start + (j - 1) * step]

(***************************************************************************)
(* Prediction: predict_temperature, predict_all                            *)
(*                                                                         *)
(* A feature vector is <<temperature, humidity, pressure, wind speed>> in  *)
(* tenths.  Predicted temperature, humidity, rainfall and aqi are in       *)
(* hundredths, a regressor's raw output in thousandths.                    *)
(***************************************************************************)
\* The fitted scaler and regressors are opaque functions of the feature
\* vector, fixed by the training generation g; these stand for
\* model.predict(scaler.transform([features]))[0], in thousandths.
RegressorRaw(name, g, x) ==
    CASE name = "lr"       -> 100 * x[1] + 1000 * g
      [] name = "rf"       -> 100 * x[1] + 1000 * g + 300
      [] name = "gb"       -> 100 * x[1] + 1000 * g - 570
      [] name = "humidity" -> 100 * x[2] - 1504 * g
      [] name = "rainfall" -> (1000 - x[2]) * 10 - 2496 * (g - 1)
      [] name = "aqi"      -> 50000 + (x[1] - 250) * 200 + 5 * g

\* 'weights': [0.2, 0.4, 0.4], in tenths.
EnsembleWeights == <<2, 4, 4>>

\* performance_metrics['ensemble']['accuracy'], in tenths.
EnsembleAccuracy == 958

\* predict_temperature: the weighted average of the three regressors,
\* rounded to 2 decimals, and the static confidence.
predict_temperature(store, features) ==
    LET w == EnsembleWeights
        g == store.models["temp_ensemble"]
        weighted == w[1] * RegressorRaw("lr", g, features)
                  + w[2] * RegressorRaw("rf", g, features)
                  + w[3] * RegressorRaw("gb", g, features)
    IN  [temp |-> RoundHalfEven(weighted, 10 * SumSeq(w)),
         confidence |-> EnsembleAccuracy]

\* round(x, 2) of a raw regressor output.
Round2(raw) == RoundHalfEven(raw, 10)

\* predict_all without the floor of the rainfall at 0.
predict_all_unfloored(store, features) ==
    [temperature |-> predict_temperature(store, features),
     humidity |-> Round2(RegressorRaw("humidity", store.models["humidity"], features)),
     rainfall |-> Round2(RegressorRaw("rainfall", store.models["rainfall"], features)),
     aqi |-> Round2(RegressorRaw("aqi", store.models["aqi"], features))]

\* predict_all: the bundle of the four predictions.
predict_all(store, features) ==
    [temperature |-> predict_temperature(store, features),
     humidity |-> Round2(RegressorRaw("humidity", store.models["humidity"], features)),
     rainfall |-> Max(0, Round2(RegressorRaw("rainfall", store.models["rainfall"], features))),
     aqi |-> Round2(RegressorRaw("aqi", store.models["aqi"], features))]

(***************************************************************************)
(* assess_risks                                                            *)
(***************************************************************************)
\* A float that may be nan: np.mean of an empty list is nan.
NaN == [nan |-> TRUE, num |-> 0, den |-> 1]

\* np.mean with the mean of an empty list taken to be 0.
np_mean_empty_is_zero(xs) ==
    IF Len(xs) = 0 THEN [nan |-> FALSE, num |-> 0, den |-> 1]
                   ELSE [nan |-> FALSE, num |-> SumSeq(xs), den |-> Len(xs)]

\* np.mean(xs): the exact quotient num/den, nan for an empty list.
np_mean(xs) ==
    IF Len(xs) = 0 THEN NaN
                   ELSE [nan |-> FALSE, num |-> SumSeq(xs), den |-> Len(xs)]

\* a < c for a float a and a number c: False when a is nan.
FloatLess(a, c) == ~a.nan /\ a.num < c * a.den

\* Thresholds of the three rules, in the units of the code.
HeatThreshold == 35
DroughtThreshold == 2
AqiThreshold == 100
DefaultAqi == 50

RiskIf(cond, type, severity) ==
    IF cond THEN <<[type |-> type, severity |-> severity]>> ELSE <<>>

\* assess_risks(temp_prediction, current_features, forecast_predictions)
assess_risks(temp_prediction, current_features, forecast_predictions) ==
    LET avg_rainfall ==
            np_mean([j \in 1..Len(forecast_predictions) |->
                        Get(forecast_predictions[j], "rainfall", 0)])
        current_aqi == IF Len(current_features) > 3
                         THEN current_features[4] ELSE 10 * DefaultAqi
    IN  RiskIf(temp_prediction.temp > 100 * HeatThreshold, "heat_stress", "high")
        \o RiskIf(FloatLess(avg_rainfall, 100 * DroughtThreshold), "drought", "medium")
        \o RiskIf(current_aqi > 10 * AqiThreshold, "air_quality", "medium")


(***************************************************************************)
(* POST /api/predict                                                       *)
(***************************************************************************)
\* Defaults of the current-weather fields, in the units of the request.
DefaultTemp == 28
DefaultHumidity == 75
DefaultPressure == 1013
DefaultWindSpeed == 3

\* The forecast loop: range(0, min(56, len(list)), 8).
ForecastCap == 56
SampleStep == 8

\* value * 3.6 (m/s to km/h), in tenths.
KmH(speed) == 36 * speed

\* lines 202-207: the feature vector of the current weather, each missing
\* field replaced by its default.
CurrentFeatures(current_weather) ==
    LET main == Get(current_weather, "main", EmptyDict)
        wind == Get(current_weather, "wind", EmptyDict)
    IN  <<10 * Get(main, "temp", DefaultTemp),
          10 * Get(main, "humidity", DefaultHumidity),
          10 * Get(main, "pressure", DefaultPressure),
          KmH(Get(wind, "speed", DefaultWindSpeed))>>

\* lines 217-222 raise KeyError unless every subscripted key is present.
EntryReadable(item) ==
    /\ "main" \in DOMAIN item
    /\ {"temp", "humidity", "pressure"} \subseteq DOMAIN item["main"]
    /\ "wind" \in DOMAIN item
    /\ "speed" \in DOMAIN item["wind"]

\* lines 217-222: the feature vector of a forecast entry.
ForecastFeatures(item) ==
    <<10 * item["main"]["temp"],
      10 * item["main"]["humidity"],
      10 * item["main"]["pressure"],
      KmH(item["wind"]["speed"])>>

\* The loop with no cap on the number of entries.
SampleIndicesUncapped(n) == Range(0, n, SampleStep)

\* The indices (from 0) the forecast loop visits in a list of length n.
SampleIndices(n) == Range(0, Min(ForecastCap, n), SampleStep)

\* predict_weather.  The value is the response and the list indices the
\* loop has read.  Python's list[i] is the sequence's element i + 1.
predict_weather(store, data) ==
    LET current_weather == Get(data, "current_weather", EmptyDict)
        forecast == Get(data, "forecast", EmptyDict)
        features == CurrentFeatures(current_weather)
        temperature_prediction == predict_temperature(store, features)
        list == IF "list" \in DOMAIN forecast THEN forecast["list"] ELSE <<>>
        idx == SampleIndices(Len(list))
        raising == {j \in 1..Len(idx) : ~EntryReadable(list[idx[j] + 1])}
    IN  IF raising # {}
          THEN LET first == CHOOSE j \in raising : \A k \in raising : j <= k
               IN  [response |-> [status |-> "error", error |-> "KeyError"],
                    readIdx |-> SubSeq(idx, 1, first)]
          ELSE LET forecast_predictions ==
                       [j \in 1..Len(idx) |->
                           predict_all(store, ForecastFeatures(list[idx[j] + 1]))]
               IN  [response |->
                       [status |-> "ok",
                        temperature_prediction |-> temperature_prediction,
                        forecast_predictions |-> forecast_predictions,
                        risks |-> assess_risks(temperature_prediction, features,
                                               forecast_predictions)],
                    readIdx |-> idx]

\* The handler of POST /api/predict runs on the pending request.
PredictWeather ==
    /\ request.op = "predict"
    /\ response.status = "none"
    /\ LET r == predict_weather(Store, request.data)
       IN  /\ response' = r.response
           /\ readIdx' = r.readIdx
    /\ UNCHANGED request
    /\ UNCHANGED storeVars

\* A call of assess_risks on its own.
AssessRisks ==
    /\ request.op = "assess"
    /\ response.status = "none"
    /\ response' = [status |-> "ok",
                    risks |-> assess_risks(request.temp_prediction,
                                           request.current_features,
                                           request.forecast_predictions)]
    /\ UNCHANGED <<request, readIdx>>
    /\ UNCHANGED storeVars

(***************************************************************************)
(* Requests of SpecPredict                                                 *)
(***************************************************************************)
\* Longest forecast list, and longest list of bundles handed to assess_risks.
MaxForecastLen == 58
MaxBundles == 3

\* Training generations whose fitted regressors the handler is run with.
FittedGens == {1, 2}

MainFull == [temp |-> 34, humidity |-> 60, pressure |-> 1005]
MainDicts == {Restrict(MainFull, S) : S \in SUBSET (DOMAIN MainFull)}
WindDicts == {EmptyDict, [speed |-> 2], [speed |-> 30]}

\* current_weather objects: main and wind each present or not.
CurrentWeathers ==
    {[k \in S |-> IF k = "main" THEN m ELSE w] :
        S \in SUBSET {"main", "wind"}, m \in MainDicts, w \in WindDicts}

\* A well-formed forecast entry; its values vary with the index.
Entry(i, shape) ==
    [main |-> [temp |-> 20 + ((i + shape) % 3) * 8,
               humidity |-> 55 + (((i \div SampleStep) + shape) % 3) * 20,
               pressure |-> 1013],
     wind |-> [speed |-> 4]]

\* The entry with one key missing.
Defects == {"main", "main.humidity", "wind.speed"}
Defective(item, defect) ==
    CASE defect = "main" -> Restrict(item, {"wind"})
      [] defect = "main.humidity" ->
            [item EXCEPT !["main"] = Restrict(item["main"], {"temp", "pressure"})]
      [] defect = "wind.speed" -> [item EXCEPT !["wind"] = EmptyDict]

\* Forecast lists: every length, well formed or with one defective entry.
ForecastLists(shape) ==
    {[i \in 1..n |-> Entry(i - 1, shape)] : n \in 0..MaxForecastLen}
    \cup UNION {{[i \in 1..n |-> IF i = at THEN Defective(Entry(i - 1, shape), d)
                                            ELSE Entry(i - 1, shape)] :
                    at \in 1..n, d \in Defects} : n \in 1..MaxForecastLen}

MakeData(keys, cw, forecast) ==
    [k \in keys |-> IF k = "current_weather" THEN cw ELSE forecast]

\* Request bodies: every current_weather with a few forecasts, and every
\* forecast list with the complete current_weather.
PredictData ==
    {MakeData(S, cw, f) :
        S \in SUBSET {"current_weather", "forecast"},
        cw \in CurrentWeathers,
        f \in {EmptyDict, [cnt |-> 0], [list |-> <<>>],
               [list |-> [i \in 1..9 |-> Entry(i - 1, 2)]]}}
    \cup {MakeData({"current_weather", "forecast"},
                   [main |-> MainFull, wind |-> [speed |-> 2]], [list |-> l]) :
             l \in ForecastLists(0) \cup ForecastLists(1)}

RECURSIVE SeqsUpTo(_, _)
SeqsUpTo(S, n) ==
    IF n = 0 THEN {<<>>}
    ELSE LET shorter == SeqsUpTo(S, n - 1)
         IN  shorter \cup {Append(q, x) : q \in shorter, x \in S}

AssessRequests ==
    {[op |-> "assess", temp_prediction |-> [temp |-> t, confidence |-> EnsembleAccuracy],
      current_features |-> cf, forecast_predictions |-> fp] :
        t \in {3400, 3500, 3501, 3600},
        cf \in {<<280, 750, 10130>>, <<280, 750, 10130, 500>>,
                <<280, 750, 10130, 1000>>, <<280, 750, 10130, 1001>>},
        fp \in SeqsUpTo({[rainfall |-> r] : r \in {0, 150, 200, 450}}, MaxBundles)}

InitPredict ==
    /\ phase = "ready"
    /\ fs = EmptyDir
    /\ \E g \in FittedGens :
          /\ scaler = [gen |-> g, fitted |-> TRUE]
          /\ models = [n \in ModelKeys |-> g]
    /\ nextGen = MaxGen + 1
    /\ tpc = "idle"
    /\ tcaller = "none"
    /\ before = [scaler |-> NoScaler, models |-> NoModels]
    /\ retrainResp = "none"
    /\ ppc = 0
    /\ pkind = "none"
    /\ reads = <<>>
    /\ predResp = "none"
    /\ initPath = "train"
    /\ persisted = TRUE
    /\ sawPersisted = FALSE
    /\ request \in {[op |-> "predict", data |-> d] : d \in PredictData} \cup AssessRequests
    /\ response = [status |-> "none"]
    /\ readIdx = <<>>

NextPredict ==
    \/ PredictWeather
    \/ AssessRisks

SpecPredict == InitPredict /\ [][NextPredict]_vars


(***************************************************************************)
(* Claims about /api/predict and assess_risks                              *)
(***************************************************************************)
\* The forecast list of the pending predict request (empty when none is given).
RequestList ==
    LET forecast == Get(request.data, "forecast", EmptyDict)
    IN  IF "list" \in DOMAIN forecast THEN forecast["list"] ELSE <<>>

\* C4: a weather field missing from the input of predict_weather is never
\* fatal: whatever fields the current-weather record or a forecast entry
\* lack, the response is a success response.
C4_MissingFieldNeverFatal ==
    (request.op = "predict" /\ response.status # "none") => response.status = "ok"

\* C5: assess_risks returns exactly the alerts whose rule fires, each once, in
\* the order heat, drought, air quality: heat_stress/high iff the predicted
\* temperature is above 35; drought/medium iff the forecast list is not empty
\* and the mean of its rainfall values is below 2; air_quality/medium iff the
\* 4th current feature is above 100.  For temperature 36, an empty forecast
\* and a 4th feature of 50 the result is the single alert heat_stress/high.
C5_AlertsExactlyWhenRulesFire ==
    (request.op \in {"assess", "predict"} /\ response.status = "ok") =>
        LET direct == request.op = "assess"
            t == IF direct THEN request.temp_prediction.temp
                           ELSE response.temperature_prediction.temp
            cf == IF direct THEN request.current_features
                            ELSE CurrentFeatures(Get(request.data, "current_weather",
                                                     EmptyDict))
            fp == IF direct THEN request.forecast_predictions
                            ELSE response.forecast_predictions
            total == SumSeq([j \in 1..Len(fp) |-> fp[j].rainfall])
            heat == t > 3500
            drought == Len(fp) > 0 /\ total < 200 * Len(fp)
            air == Len(cf) >= 4 /\ cf[4] > 1000
            expected ==
                (IF heat THEN <<[type |-> "heat_stress", severity |-> "high"]>> ELSE <<>>)
                \o (IF drought THEN <<[type |-> "drought", severity |-> "medium"]>> ELSE <<>>)
                \o (IF air THEN <<[type |-> "air_quality", severity |-> "medium"]>> ELSE <<>>)
        IN  /\ response.risks = expected
            /\ (t = 3600 /\ fp = <<>> /\ Len(cf) >= 4 /\ cf[4] = 500) =>
                   response.risks = <<[type |-> "heat_stress", severity |-> "high"]>>

\* assess_risks has answered for temperature 36, an empty forecast and a 4th
\* feature of 50.
C5_Witness ==
    /\ request.op = "assess"
    /\ response.status = "ok"
    /\ request.temp_prediction.temp = 3600
    /\ request.forecast_predictions = <<>>
    /\ request.current_features = <<280, 750, 10130, 500>>
    /\ Len(response.risks) = 1

\* C9: for a forecast list of length n, predict_weather reads the entries at
\* indices 0, 8, 16, ... below min(n, 56), in that order, at most 7 of them
\* and none at index 56 or beyond; a success response holds one prediction
\* bundle for each of exactly these entries, in order, and none when no
\* forecast list is supplied.
C9_EveryEighthEntryUpTo56 ==
    (request.op = "predict" /\ response.status # "none") =>
        LET n == Len(RequestList)
            wanted == {i \in 0..(n - 1) : i % 8 = 0 /\ i < 56}
        IN  /\ Len(readIdx) <= 7
            /\ \A j \in 1..Len(readIdx) :
                  /\ readIdx[j] = 8 * (j - 1)
                  /\ readIdx[j] < n
                  /\ readIdx[j] < 56
            /\ response.status = "ok" =>
                  /\ {readIdx[j] : j \in 1..Len(readIdx)} = wanted
                  /\ Len(readIdx) = Cardinality(wanted)
                  /\ Len(response.forecast_predictions) = Len(readIdx)
                  /\ \A j \in 1..Len(readIdx) :
                        response.forecast_predictions[j] =
                            predict_all(Store, ForecastFeatures(RequestList[8 * (j - 1) + 1]))
                  /\ "forecast" \notin DOMAIN request.data =>
                        response.forecast_predictions = <<>>

\* A list longer than 56 entries has been handled: 7 predictions.
C9_Witness ==
    /\ request.op = "predict"
    /\ response.status = "ok"
    /\ Len(RequestList) > 56
    /\ Len(response.forecast_predictions) = 7
    /\ readIdx[7] = 48

\* C10: the rainfall of every prediction bundle predict_all returns is >= 0,
\* whatever the rainfall regressor outputs; so is every rainfall value that
\* reaches assess_risks through the forecast predictions.
C10_RainfallNeverNegative ==
    (request.op = "predict" /\ response.status = "ok") =>
        \A j \in 1..Len(response.forecast_predictions) :
            response.forecast_predictions[j].rainfall >= 0

\* A bundle whose rainfall regressor output was negative is in a response.
C10_Witness ==
    /\ request.op = "predict"
    /\ response.status = "ok"
    /\ \E j \in 1..Len(readIdx) :
          /\ RegressorRaw("rainfall", models["rainfall"],
                          ForecastFeatures(RequestList[readIdx[j] + 1])) < -5
          /\ response.forecast_predictions[j].rainfall = 0


(***************************************************************************)
(* POST /api/crop/recommendations                                          *)
(*                                                                         *)
(* Temperatures and humidities of a request are in quarters of a degree or *)
(* percent (values a float holds exactly); a compatibility score is in     *)
(* tenths.                                                                 *)
(***************************************************************************)
\* crop_requirements, lines 255-271, in degrees, percent and mm.
crop_requirements ==
    [rice   |-> [temp_range |-> <<20, 35>>, humidity_range |-> <<70, 90>>,
                 optimal_rainfall |-> <<1500, 2000>>],
     wheat  |-> [temp_range |-> <<12, 25>>, humidity_range |-> <<50, 70>>,
                 optimal_rainfall |-> <<500, 750>>],
     cotton |-> [temp_range |-> <<21, 30>>, humidity_range |-> <<60, 80>>,
                 optimal_rainfall |-> <<600, 1200>>]]

\* The lookup with wheat as the fallback crop.
LookupRequirementsWheat(crop_type) ==
    Get(crop_requirements, crop_type, crop_requirements["wheat"])

\* line 273: crop_requirements.get(crop_type, crop_requirements['rice'])
LookupRequirements(crop_type) ==
    Get(crop_requirements, crop_type, crop_requirements["rice"])

\* Penalty per degree / per percent outside the range.
TempPenalty == 10
HumidityPenalty == 5

\* One component score, in eighths: 100 inside [min, max], otherwise
\* max(0, 100 - abs(value - np.mean(range)) * penalty).
ComponentScore(value, range, penalty) ==
    IF 4 * range[1] <= value /\ value <= 4 * range[2]
      THEN 800
      ELSE Max(0, 800 - 2 * penalty * Abs(value - 2 * (range[1] + range[2])))

\* The score with the temperature penalty applied to the humidity too.
calculate_compatibility_score_one_penalty(temp, humidity, requirements) ==
    LET temp_score == ComponentScore(temp, requirements.temp_range, TempPenalty)
        humidity_score == ComponentScore(humidity, requirements.humidity_range,
                                         TempPenalty)
    IN  RoundHalfEven(10 * (temp_score + humidity_score), 16)

\* calculate_compatibility_score: round((temp_score + humidity_score) / 2, 1)
calculate_compatibility_score(temp, humidity, requirements) ==
    LET temp_score == ComponentScore(temp, requirements.temp_range, TempPenalty)
        humidity_score == ComponentScore(humidity, requirements.humidity_range,
                                         HumidityPenalty)
    IN  RoundHalfEven(10 * (temp_score + humidity_score), 16)

\* The temperature analysis with 'warning' on both sides of the range.
TemperatureAnalysisBothWarning(current_temp, requirements) ==
    [type |-> IF current_temp < 4 * requirements.temp_range[1] THEN "warning"
              ELSE IF current_temp > 4 * requirements.temp_range[2] THEN "warning"
              ELSE "success",
     parameter |-> "temperature"]

\* lines 281-301
TemperatureAnalysis(current_temp, requirements) ==
    [type |-> IF current_temp < 4 * requirements.temp_range[1] THEN "warning"
              ELSE IF current_temp > 4 * requirements.temp_range[2] THEN "critical"
              ELSE "success",
     parameter |-> "temperature"]

\* lines 304-324
HumidityAnalysis(current_humidity, requirements) ==
    [type |-> IF current_humidity < 4 * requirements.humidity_range[1] THEN "warning"
              ELSE IF current_humidity > 4 * requirements.humidity_range[2] THEN "warning"
              ELSE "success",
     parameter |-> "humidity"]

\* get_crop_recommendations
get_crop_recommendations(data) ==
    LET crop_type == Get(data, "crop_type", "rice")
        weather_data == Get(data, "weather_data", EmptyDict)
        requirements == LookupRequirements(crop_type)
        current_temp == Get(weather_data, "temp", 4 * DefaultTemp)
        current_humidity == Get(weather_data, "humidity", 4 * DefaultHumidity)
    IN  [status |-> "ok",
         crop_type |-> crop_type,
         recommendations |-> <<TemperatureAnalysis(current_temp, requirements),
                               HumidityAnalysis(current_humidity, requirements)>>,
         compatibility_score |->
             calculate_compatibility_score(current_temp, current_humidity,
                                           requirements)]

\* The handler of POST /api/crop/recommendations runs on the pending request.
CropRecommendations ==
    /\ request.op = "crop"
    /\ response.status = "none"
    /\ response' = get_crop_recommendations(request.data)
    /\ UNCHANGED <<request, readIdx>>
    /\ UNCHANGED storeVars

(***************************************************************************)
(* Requests of SpecCrop                                                    *)
(***************************************************************************)
\* Temperatures 0..MaxTemp degrees in steps of a half, humidities
\* MinHumidity..MaxHumidity percent in steps of a quarter.
MaxTemp == 44
MinHumidity == 40
MaxHumidity == 100

TempInputs == {2 * i : i \in 0..(2 * MaxTemp)}
HumidityInputs == (4 * MinHumidity)..(4 * MaxHumidity)
CropInputs == {"rice", "wheat", "cotton", "maize"}

MakeCropData(keys, crop, wd) ==
    [k \in keys |-> IF k = "crop_type" THEN crop ELSE wd]

\* Request bodies: every crop at every temperature and humidity, and bodies
\* with keys missing.
CropData ==
    {MakeCropData({"crop_type", "weather_data"}, c, [temp |-> t, humidity |-> h]) :
        c \in CropInputs, t \in TempInputs, h \in HumidityInputs}
    \cup {MakeCropData(S, c, wd) :
             S \in SUBSET {"crop_type", "weather_data"},
             c \in CropInputs,
             wd \in {EmptyDict, [temp |-> 4 * 10], [humidity |-> 4 * 95]}}

InitCrop ==
    /\ phase = "ready"
    /\ fs = EmptyDir
    /\ scaler = [gen |-> 1, fitted |-> TRUE]
    /\ models = [n \in ModelKeys |-> 1]
    /\ nextGen = MaxGen + 1
    /\ tpc = "idle"
    /\ tcaller = "none"
    /\ before = [scaler |-> NoScaler, models |-> NoModels]
    /\ retrainResp = "none"
    /\ ppc = 0
    /\ pkind = "none"
    /\ reads = <<>>
    /\ predResp = "none"
    /\ initPath = "train"
    /\ persisted = TRUE
    /\ sawPersisted = FALSE
    /\ request \in {[op |-> "crop", data |-> d] : d \in CropData}
    /\ response = [status |-> "none"]
    /\ readIdx = <<>>

NextCrop == CropRecommendations

SpecCrop == InitCrop /\ [][NextCrop]_vars

(***************************************************************************)
(* Claims about /api/crop/recommendations                                  *)
(***************************************************************************)
\* The crop, temperature and humidity the pending crop request stands for.
ReqCrop == Get(request.data, "crop_type", "rice")
ReqTemp == Get(Get(request.data, "weather_data", EmptyDict), "temp", 4 * 28)
ReqHumidity == Get(Get(request.data, "weather_data", EmptyDict), "humidity", 4 * 75)

CropAnswered == request.op = "crop" /\ response.status = "ok"

\* C6: the compatibility score is the average of the temperature and the
\* humidity component, rounded to 1 decimal, a component being 100 inside the
\* closed range and max(0, 100 - |value - midpoint| * k) outside, k = 10 for
\* temperature and 5 for humidity; it lies in 0..100, is 100.0 for rice at
\* (28, 75) and 15.0 for wheat at (28, 75).
\* (Components below are in sixteenths, the score in tenths: the score is a
\* nearest tenth of the average when |score/10 - (ct + ch)/32| <= 1/20.)
C6_ScoreIsRoundedAverage ==
    (CropAnswered /\ ReqCrop \in {"rice", "wheat", "cotton"}) =>
        LET req == crop_requirements[ReqCrop]
            comp(v, lo, hi, k) ==
                IF 4 * lo <= v /\ v <= 4 * hi
                  THEN 1600
                  ELSE IF 1600 - 4 * k * Abs(v - 2 * (lo + hi)) > 0
                         THEN 1600 - 4 * k * Abs(v - 2 * (lo + hi)) ELSE 0
            ct == comp(ReqTemp, req.temp_range[1], req.temp_range[2], 10)
            ch == comp(ReqHumidity, req.humidity_range[1], req.humidity_range[2], 5)
            score == response.compatibility_score
        IN  /\ score \in 0..1000
            /\ Abs(32 * score - 10 * (ct + ch)) <= 16
            /\ (ReqTemp = 4 * 28 /\ ReqHumidity = 4 * 75) =>
                  /\ ReqCrop = "rice" => score = 1000
                  /\ ReqCrop = "wheat" => score = 150

\* Wheat at (28, 75) has been scored.
C6_Witness ==
    /\ CropAnswered
    /\ ReqCrop = "wheat" /\ ReqTemp = 4 * 28 /\ ReqHumidity = 4 * 75
    /\ response.compatibility_score = 150

\* C7: the handler returns exactly two recommendations, temperature first and
\* humidity second: temperature below the minimum is a warning, above the
\* maximum critical, inside the closed range success; humidity below the
\* minimum or above the maximum is a warning, inside success.  Wheat at
\* (28, 75) gives temperature critical and humidity warning.
C7_TwoRecommendationsClassified ==
    (CropAnswered /\ ReqCrop \in {"rice", "wheat", "cotton"}) =>
        LET req == crop_requirements[ReqCrop]
            recs == response.recommendations
        IN  /\ Len(recs) = 2
            /\ recs[1].parameter = "temperature"
            /\ recs[2].parameter = "humidity"
            /\ recs[1].type = "warning" <=> ReqTemp < 4 * req.temp_range[1]
            /\ recs[1].type = "critical" <=> ReqTemp > 4 * req.temp_range[2]
            /\ recs[1].type = "success" <=>
                  (4 * req.temp_range[1] <= ReqTemp /\ ReqTemp <= 4 * req.temp_range[2])
            /\ recs[2].type = "warning" <=>
                  (ReqHumidity < 4 * req.humidity_range[1]
                     \/ ReqHumidity > 4 * req.humidity_range[2])
            /\ recs[2].type = "success" <=>
                  (4 * req.humidity_range[1] <= ReqHumidity
                     /\ ReqHumidity <= 4 * req.humidity_range[2])
            /\ (ReqCrop = "wheat" /\ ReqTemp = 4 * 28 /\ ReqHumidity = 4 * 75) =>
                  (recs[1].type = "critical" /\ recs[2].type = "warning")

\* Wheat at (28, 75) has been classified.
C7_Witness ==
    /\ CropAnswered
    /\ ReqCrop = "wheat" /\ ReqTemp = 4 * 28 /\ ReqHumidity = 4 * 75
    /\ response.recommendations[1].type = "critical"
    /\ response.recommendations[2].type = "warning"

\* C8: a crop type that is no key of the crop table is handled without an
\* error: the response is a success with the recommendations and the
\* compatibility score that 'rice' gives for the same temperature and humidity.
C8_UnknownCropIsRice ==
    (request.op = "crop" /\ response.status # "none"
       /\ ReqCrop \notin {"rice", "wheat", "cotton"}) =>
        LET rice == get_crop_recommendations(
                        [k \in DOMAIN request.data \cup {"crop_type"} |->
                            IF k = "crop_type" THEN "rice" ELSE request.data[k]])
        IN  /\ response.status = "ok"
            /\ response.recommendations = rice.recommendations
            /\ response.compatibility_score = rice.compatibility_score
            /\ response.recommendations[1].type = "success" <=>
                  (4 * 20 <= ReqTemp /\ ReqTemp <= 4 * 35)
            /\ response.recommendations[2].type = "success" <=>
                  (4 * 70 <= ReqHumidity /\ ReqHumidity <= 4 * 90)

\* An unknown crop has been answered for conditions that suit rice but not
\* wheat or cotton.
C8_Witness ==
    /\ CropAnswered
    /\ ReqCrop = "maize" /\ ReqTemp = 4 * 33 /\ ReqHumidity = 4 * 85
    /\ response.compatibility_score = 1000

=============================================================================
